---- MODULE Spec2Model ----
(***************************************************************************)
(* File over EtherCAT (FoE) transfer engine: ecx_FOEdefinehook,            *)
(* ecx_FOEread and ecx_FOEwrite of src/src/ec_foe.c, modelled as a state   *)
(* machine.  One action per blocking section of a call: the code up to    *)
(* and including the send of the request, and one iteration of the        *)
(* do/while loop (receive one response, handle it, and, when the loop     *)
(* ends, the final drops and the return).  The slave and the mailbox      *)
(* transport are the environment: every response and every work counter  *)
(* is a nondeterministic input.                                            *)
(***************************************************************************)
EXTENDS Integers, Sequences, FiniteSets, TLC

\* ---------------------------------------------------------------- bounds
\* in-loop mbx_receive calls modelled per call
MaxRecv == 5
\* largest caller buffer / payload size modelled
MaxSize == 2
\* largest maxdata modelled (slave.mbx_l ranges over 12 .. 12 + MaxData)
MaxData == 2

\* ------------------------------------------------------- program constants
NULL == 0
\* the value of (ec_mbxbuft *)&MbxOut: an address that is no pool buffer
AddrOfMbxOut == -1
\* soem headers (not part of src/): opcodes, mailbox type, error types
ECT_FOE_READ == 1
ECT_FOE_WRITE == 2
ECT_FOE_DATA == 3
ECT_FOE_ACK == 4
ECT_FOE_ERROR == 5
ECT_FOE_BUSY == 6
ECT_MBXT_COE == 3
ECT_MBXT_FOE == 4
EC_ERR_TYPE_PACKET_ERROR == 3
EC_ERR_TYPE_FOE_ERROR == 5
EC_ERR_TYPE_FOE_BUF2SMALL == 6
EC_ERR_TYPE_FOE_PACKETNUMBER == 7
EC_ERR_TYPE_FOE_FILE_NOTFOUND == 10
EC_MAXMBX == 1486
\* sizeof(ec_mbxheadert) + 2 * sizeof(uint8_t) + sizeof(uint32_t)
EC_MAXFOEDATA == EC_MAXMBX - (6 + 1 + 1 + 4)
\* the literal 0x8001 of the ERROR branch, and the 0x0006 of the length field
FileNotFoundCode == 32769
FoeHeaderSize == 6
\* slave.mbx_l - 12
MbxPreamble == 12

\* ------------------------------------------------------------- arithmetic
Min(a, b) == IF a < b THEN a ELSE b

Uint16(x) == x % 65536

Swap16(x) == (x % 256) * 256 + (x \div 256)

Swap32(x) ==
    (x % 256) * 16777216 + ((x \div 256) % 256) * 65536
    + ((x \div 65536) % 256) * 256 + (x \div 16777216)

\* osal byte order macros: identity on a little endian host, a byte swap on
\* a big endian one.  be is the build's byte order.
htoes(be, x) == IF be THEN Swap16(x) ELSE x
etohs(be, x) == IF be THEN Swap16(x) ELSE x
htoel(be, x) == IF be THEN Swap32(x) ELSE x
etohl(be, x) == IF be THEN Swap32(x) ELSE x

\* the value a little endian reader (the wire) sees in a host field
Wire16(be, x) == IF be THEN Swap16(x) ELSE x
Wire32(be, x) == IF be THEN Swap32(x) ELSE x

\* transport contract: next_mbx_cnt(prev) = (prev mod 7) + 1
ec_nextmbxcnt(cnt) == (cnt % 7) + 1

MBX_HDR_SET_CNT(cnt) == cnt * 16
MBX_HDR_GET_CNT(mbxtype) == (mbxtype \div 16) % 8

\* memcpy(dst + off, src, n) on byte sequences; bytes read past the end of
\* src are whatever the mailbox buffer holds there (cleared: 0); a write past
\* the end of dst lands beyond the caller's buffer and shows as a longer dst
MemRead(src, n) == [j \in 1..n |-> IF j <= Len(src) THEN src[j] ELSE 0]

MemWrite(dst, off, bytes) ==
    LET top == IF Len(bytes) > 0 /\ off + Len(bytes) > Len(dst)
               THEN off + Len(bytes) ELSE Len(dst)
    IN  [j \in 1..top |->
            IF j > off /\ j <= off + Len(bytes) THEN bytes[j - off]
            ELSE IF j <= Len(dst) THEN dst[j] ELSE 0]

\* bytes off+1 .. off+n of the caller's file
Slice(s, off, n) == [j \in 1..n |-> IF off + j \in 1..Len(s) THEN s[off + j] ELSE 0]

\* ------------------------------------------------------------ mailbox data
\* an FoE packet as it lies in a mailbox buffer (ec_FOEt): host byte order
\* fields MbxHeader.length, MbxHeader.mbxtype, OpCode, the 32 bit union
\* Password/PacketNumber/ErrorCode, and the payload
Pkt(length, mbxtype, opcode, number, data) ==
    [length |-> length, mbxtype |-> mbxtype, OpCode |-> opcode,
     PacketNumber |-> number, Data |-> data]

\* ec_clearmbx: a zeroed buffer
ClearedPkt == Pkt(0, 0, 0, 0, <<>>)

\* a packet the slave put on the wire (little endian), as the host reads it
InPkt(be, mbxtype, opcode, wirelength, wirenumber, data) ==
    Pkt(Wire16(be, wirelength), mbxtype, opcode, Wire32(be, wirenumber), data)

\* payload of the k-th response: n distinct, recognisable bytes
Payload(k, n) == [j \in 1..n |-> 10 * k + j]

\* the caller's file of n bytes (write)
FileOf(n) == [j \in 1..n |-> 100 + j]

\* work counters: a successful exchange, and the transport's failures
OkWkc == 1
FailWkc == {0, -1}
SendWkc == {OkWkc} \cup FailWkc

\* ------------------------------------------------------------------ state
VARIABLES
    pc,          \* "idle", "read_loop", "write_loop", "done" (the call returned)
    op,          \* the call in progress or returned last: "none", "read", "write"
    ret,         \* return value of the call returned last
    bigEndian,   \* byte order of the build
    mbx_l,       \* context->slavelist[slave].mbx_l
    mbx_cnt,     \* context->slavelist[slave].mbx_cnt
    FOEhook,     \* context->FOEhook (NULL or a hook)
    psize,       \* read: *psize ; write: the parameter psize (bytes remaining)
    p,           \* offset of the cursor p in the caller's buffer
    wkc,
    MbxIn,
    MbxOut,
    FOEp,
    segmentdata,
    maxdata,
    dataread,
    buffersize,
    prevpacket,
    buf,         \* read: contents of the caller's buffer
    sendpacket,
    dofinalzero,
    file,        \* write: contents of the caller's buffer
    owned,       \* mailbox buffers the call owns (acquired, not yet released)
    nextid,      \* next buffer the pool or the receive hands out
    released,    \* buffers released (drop_mbx or successful mbx_send), in order
    log,         \* what the call did: drain, send, recv, hook events, in order
    nrecv        \* in-loop receives of this call

vars == <<pc, op, ret, bigEndian, mbx_l, mbx_cnt, FOEhook, psize, p, wkc,
          MbxIn, MbxOut, FOEp, segmentdata, maxdata, dataread, buffersize,
          prevpacket, buf, sendpacket, dofinalzero, file, owned, nextid,
          released, log, nrecv>>

readLocals == <<dataread, buffersize, prevpacket, buf>>
writeLocals == <<sendpacket, dofinalzero, file>>

\* log events
Event(ev, pkt, w, b, built, own, num, size) ==
    [ev |-> ev, pkt |-> pkt, wkc |-> w, buf |-> b, built |-> built,
     own |-> own, num |-> num, size |-> size]

SendEv(pkt, w, b, built, own) == Event("send", pkt, w, b, built, own, 0, 0)
RecvEv(pkt, w, b) == Event("recv", pkt, w, b, NULL, TRUE, 0, 0)
DrainEv(w, b) == Event("drain", ClearedPkt, w, b, NULL, TRUE, 0, 0)
HookEv(num, size) == Event("hook", ClearedPkt, 0, NULL, NULL, TRUE, num, size)

\* ------------------------------------------------------- shared code pieces
\* maxdata = context->slavelist[slave].mbx_l - 12 (uint16)
maxdataOf(l) == Uint16(l - MbxPreamble)

\* fnsize: strlen(filename) clamped to EC_MAXFOEDATA and to maxdata
fnsizeOf(len, md) ==
    LET f1 == IF Uint16(len) > EC_MAXFOEDATA THEN EC_MAXFOEDATA ELSE Uint16(len)
    IN  IF f1 > md THEN md ELSE f1

\* the READ/WRITE request built in MbxOut
RequestPkt(be, opcode, fnsize, cnt) ==
    Pkt(htoes(be, FoeHeaderSize + fnsize), ECT_MBXT_FOE + MBX_HDR_SET_CNT(cnt),
        opcode, htoel(be, 0), [j \in 1..fnsize |-> 200 + j])

\* if (MbxIn) ecx_dropmbx(...); if (MbxOut) ecx_dropmbx(...);
ExitDrops(mi, mo) ==
    (IF mi # NULL THEN <<mi>> ELSE <<>>) \o (IF mo # NULL THEN <<mo>> ELSE <<>>)

SeqRange(s) == {s[i] : i \in 1..Len(s)}

\* slave response should be FoE: (mbxtype & 0x0f) == ECT_MBXT_FOE
IsFoE(pkt) == (pkt.mbxtype % 16) = ECT_MBXT_FOE

\* slave.mbx_cnt when the call starts: 0 after start-up, any of 1..7 after
\* earlier mailbox traffic; these let one call reach the wrap from 7 to 1
InitCnt == {0, 3, 6}

\* strlen(filename) of the calls modelled
FnLen == 2

Init ==
    /\ pc = "idle"
    /\ op = "none"
    /\ ret = 0
    /\ bigEndian \in BOOLEAN
    /\ mbx_l \in MbxPreamble..(MbxPreamble + MaxData)
    /\ mbx_cnt \in InitCnt
    /\ FOEhook = NULL
    /\ psize = 0
    /\ p = 0
    /\ wkc = 0
    /\ MbxIn = NULL
    /\ MbxOut = NULL
    /\ FOEp = NULL
    /\ segmentdata = 0
    /\ maxdata = 0
    /\ dataread = 0
    /\ buffersize = 0
    /\ prevpacket = 0
    /\ buf = <<>>
    /\ sendpacket = 0
    /\ dofinalzero = FALSE
    /\ file = <<>>
    /\ owned = {}
    /\ nextid = 1
    /\ released = <<>>
    /\ log = <<>>
    /\ nrecv = 0

\* ------------------------------------------------------- ecx_FOEdefinehook
FOEdefinehook(hook) ==
    /\ pc = "idle"
    /\ FOEhook' = hook
    /\ UNCHANGED <<pc, op, ret, bigEndian, mbx_l, mbx_cnt, psize, p, wkc,
                   MbxIn, MbxOut, FOEp, segmentdata, maxdata, dataread,
                   buffersize, prevpacket, buf, sendpacket, dofinalzero, file,
                   owned, nextid, released, log, nrecv>>

\* ------------------------------------------------------------- ecx_FOEread
\* segmentdata = etohs(aFOEp->MbxHeader.length) - 0x0006 (uint16)
ReadSegment(be, length) == Uint16(etohs(be, length) - FoeHeaderSize)

\* a variant of ReadAccept whose buffer size check is off by one
ReadAcceptOffByOne(packetnumber, prev1, dread, seg, bsize) ==
    (packetnumber = prev1) /\ (dread + seg <= bsize + 1)

\* (packetnumber == ++prevpacket) && (dataread + segmentdata <= buffersize)
\* prev1 is prevpacket after the increment
ReadAccept(packetnumber, prev1, dread, seg, bsize) ==
    (packetnumber = prev1) /\ (dread + seg <= bsize)

\* a variant of ReadAdvance that assigns instead of adding
ReadAdvanceLast(dread, seg) == seg

\* dataread += segmentdata
ReadAdvance(dread, seg) == dread + seg

\* a variant of ReadWorktodo that forgets the test of the ACK's work counter
ReadWorktodoIgnoreWkc(seg, md, sendwkc) == seg = md

\* a variant of ReadWorktodo that goes on after a short segment as well
ReadWorktodoShort(seg, md, sendwkc) == (seg <= md) /\ ~(sendwkc <= 0)

\* if (segmentdata == maxdata) worktodo = TRUE; ... if (wkc <= 0) worktodo = FALSE;
ReadWorktodo(seg, md, sendwkc) == (seg = md) /\ ~(sendwkc <= 0)

\* the ACK built in MbxOut
AckPkt(be, cnt, packetnumber) ==
    Pkt(htoes(be, FoeHeaderSize), ECT_MBXT_FOE + MBX_HDR_SET_CNT(cnt),
        ECT_FOE_ACK, htoel(be, packetnumber), <<>>)

\* a variant of ReadErrorWkc that reports every rejection as a packet error
ReadErrorWkcFlat(pkt) == -EC_ERR_TYPE_PACKET_ERROR

\* wkc for a response that is not an acceptable DATA packet
ReadErrorWkc(pkt) ==
    IF IsFoE(pkt)
    THEN IF pkt.OpCode = ECT_FOE_DATA THEN -EC_ERR_TYPE_FOE_BUF2SMALL
         ELSE IF pkt.OpCode = ECT_FOE_ERROR THEN -EC_ERR_TYPE_FOE_ERROR
         ELSE -EC_ERR_TYPE_PACKET_ERROR
    ELSE -EC_ERR_TYPE_PACKET_ERROR

\* what the slave may answer to a READ: DATA with the expected, an earlier or
\* a later number and a segment of 0 .. maxdata + 1 bytes (or a length field
\* below the FoE header size), ERROR, another opcode, a non FoE mailbox
ReadResponses(be, prev, md, k) ==
    {InPkt(be, ECT_MBXT_FOE + MBX_HDR_SET_CNT(1), ECT_FOE_DATA,
           FoeHeaderSize + n, num, Payload(k, n)) :
        n \in 0..(md + 1), num \in {prev, prev + 1, prev + 2}}
    \cup {InPkt(be, ECT_MBXT_FOE, ECT_FOE_DATA, FoeHeaderSize - 1, prev + 1, <<>>)}
    \cup {InPkt(be, ECT_MBXT_FOE, o, FoeHeaderSize, FileNotFoundCode, <<>>) :
            o \in {ECT_FOE_ERROR, ECT_FOE_ACK, ECT_FOE_BUSY}}
    \cup {InPkt(be, ECT_MBXT_COE, ECT_FOE_DATA, FoeHeaderSize, prev + 1, <<>>)}

\* lines 85-117 and, when the request could not be sent, 198-200
FOEreadCall(size, fnlen, drained, sw) ==
    /\ pc = "idle"
    /\ LET in0   == IF drained THEN 1 ELSE NULL
           out0  == IF drained THEN 2 ELSE 1
           md    == maxdataOf(mbx_l)
           cnt   == ec_nextmbxcnt(mbx_cnt)
           req   == RequestPkt(bigEndian, ECT_FOE_READ, fnsizeOf(fnlen, md), cnt)
           own1  == IF sw > 0 THEN {in0} \ {NULL} ELSE {in0, out0} \ {NULL}
           rel1  == IF sw > 0 THEN <<out0>> ELSE <<>>
           log1  == <<DrainEv(IF drained THEN OkWkc ELSE 0, in0),
                      SendEv(req, sw, out0, out0, TRUE)>>
       IN  /\ op' = "read"
           /\ buffersize' = size
           /\ psize' = size
           /\ buf' = [j \in 1..size |-> 0]
           /\ dataread' = 0
           /\ prevpacket' = 0
           /\ p' = 0
           /\ maxdata' = md
           /\ segmentdata' = 0
           /\ mbx_cnt' = cnt
           /\ FOEp' = out0
           /\ MbxOut' = NULL
           /\ wkc' = sw
           /\ nextid' = out0 + 1
           /\ log' = log1
           /\ nrecv' = 0
           /\ sendpacket' = 0
           /\ dofinalzero' = FALSE
           /\ file' = <<>>
           /\ IF sw > 0
              THEN /\ pc' = "read_loop"
                   /\ MbxIn' = in0
                   /\ owned' = own1
                   /\ released' = rel1
                   /\ ret' = 0
              ELSE /\ pc' = "done"
                   /\ MbxIn' = in0
                   /\ owned' = own1 \ SeqRange(ExitDrops(in0, NULL))
                   /\ released' = rel1 \o ExitDrops(in0, NULL)
                   /\ ret' = sw
    /\ UNCHANGED <<bigEndian, mbx_l, FOEhook>>

\* one iteration of the do/while loop (lines 119-196) with its receive timing
\* out (rw <= 0) or delivering pkt; sw is the work counter of the ACK's send.
\* When worktodo is FALSE the action goes on to lines 198-200.
FOEreadLoop(rw, pkt, sw) ==
    /\ pc = "read_loop"
    /\ nrecv < MaxRecv
    /\ LET own0  == owned \ ({MbxIn} \ {NULL})
           rel0  == released \o ExitDrops(MbxIn, NULL)
           in1   == IF rw > 0 THEN nextid ELSE NULL
           own1  == own0 \cup ({in1} \ {NULL})
           id1   == IF rw > 0 THEN nextid + 1 ELSE nextid
           isdata == rw > 0 /\ IsFoE(pkt) /\ pkt.OpCode = ECT_FOE_DATA
           seg   == IF isdata THEN ReadSegment(bigEndian, pkt.length) ELSE segmentdata
           num   == etohl(bigEndian, pkt.PacketNumber)
           prev1 == IF isdata THEN prevpacket + 1 ELSE prevpacket
           acc   == isdata /\ ReadAccept(num, prev1, dataread, seg, buffersize)
           dr1   == IF acc THEN ReadAdvance(dataread, seg) ELSE dataread
           out1  == id1
           cnt   == ec_nextmbxcnt(mbx_cnt)
           ack   == AckPkt(bigEndian, cnt, num)
           own2  == IF acc /\ ~(sw > 0) THEN own1 \cup {out1} ELSE own1
           rel2  == IF acc /\ sw > 0 THEN rel0 \o <<out1>> ELSE rel0
           todo  == acc /\ ReadWorktodo(seg, maxdata, sw)
           wkc1  == IF ~(rw > 0) THEN rw
                    ELSE IF acc THEN sw
                    ELSE ReadErrorWkc(pkt)
           log1  == log \o <<RecvEv(IF rw > 0 THEN pkt ELSE ClearedPkt, rw, in1)>>
                    \o (IF acc THEN <<SendEv(ack, sw, out1, out1, TRUE)>> ELSE <<>>)
                    \o (IF acc /\ FOEhook # NULL THEN <<HookEv(num, dr1)>> ELSE <<>>)
       IN  /\ nrecv' = nrecv + 1
           /\ segmentdata' = seg
           /\ prevpacket' = prev1
           /\ dataread' = dr1
           /\ buf' = IF acc THEN MemWrite(buf, p, MemRead(pkt.Data, seg)) ELSE buf
           /\ p' = IF acc THEN p + seg ELSE p
           /\ mbx_cnt' = IF acc THEN cnt ELSE mbx_cnt
           /\ FOEp' = IF acc THEN out1 ELSE FOEp
           /\ nextid' = IF acc THEN out1 + 1 ELSE id1
           /\ MbxOut' = NULL
           /\ psize' = IF rw > 0 THEN dr1 ELSE psize
           /\ wkc' = wkc1
           /\ log' = log1
           /\ IF todo
              THEN /\ pc' = "read_loop"
                   /\ MbxIn' = in1
                   /\ owned' = own2
                   /\ released' = rel2
                   /\ ret' = ret
              ELSE /\ pc' = "done"
                   /\ MbxIn' = in1
                   /\ owned' = own2 \ SeqRange(ExitDrops(in1, NULL))
                   /\ released' = rel2 \o ExitDrops(in1, NULL)
                   /\ ret' = wkc1
    /\ UNCHANGED <<op, bigEndian, mbx_l, FOEhook, maxdata, buffersize,
                   sendpacket, dofinalzero, file>>

\* ------------------------------------------------------------ ecx_FOEwrite
\* tsize = psize; if (tsize > maxdata) tsize = maxdata;
Tsize(ps, md) == IF ps > md THEN md ELSE ps

\* if (tsize || dofinalzero)
MustSend(tsize, dfz) == (tsize # 0) \/ dfz

\* a variant of FinalZero that forgets to compare the segment with maxdata
FinalZeroWhenEmpty(ps, seg, md) == ps = 0

\* a variant of FinalZero that stops when nothing remains
FinalZeroNever(ps, seg, md) == FALSE

\* if (!psize && (segmentdata == maxdata)) dofinalzero = TRUE;  (else FALSE)
FinalZero(ps, seg, md) == (ps = 0) /\ (seg = md)

\* a variant of WriteWorktodo that sets worktodo before the test of line 289
WriteWorktodoEarly(send, sendwkc) == ~(send /\ sendwkc <= 0)

\* worktodo = TRUE inside if (tsize || dofinalzero); if (wkc <= 0) worktodo = FALSE;
WriteWorktodo(send, sendwkc) == send /\ ~(sendwkc <= 0)

\* the DATA packet built through FOEp
DataPkt(be, cnt, num, seg, bytes) ==
    Pkt(htoes(be, Uint16(FoeHeaderSize + seg)), ECT_MBXT_FOE + MBX_HDR_SET_CNT(cnt),
        ECT_FOE_DATA, htoel(be, num), bytes)

\* case ECT_FOE_ACK: packetnumber == sendpacket
AckMatches(packetnumber, sp) == packetnumber = sp

\* case ECT_FOE_ERROR: aFOEp->ErrorCode == 0x8001 (the field as it lies in
\* the buffer, no etohl)
ErrorWkc(errorcode) ==
    IF errorcode = FileNotFoundCode THEN -EC_ERR_TYPE_FOE_FILE_NOTFOUND
    ELSE -EC_ERR_TYPE_FOE_ERROR

\* wkc for a response that is neither a matching ACK nor BUSY
WriteErrorWkc(pkt) ==
    IF IsFoE(pkt)
    THEN IF pkt.OpCode = ECT_FOE_ACK THEN -EC_ERR_TYPE_FOE_PACKETNUMBER
         ELSE IF pkt.OpCode = ECT_FOE_ERROR THEN ErrorWkc(pkt.PacketNumber)
         ELSE -EC_ERR_TYPE_PACKET_ERROR
    ELSE -EC_ERR_TYPE_PACKET_ERROR

\* BUSY branch: psize += segmentdata; p -= segmentdata; --sendpacket;
BusyPsize(ps, seg) == ps + seg
BusyCursor(cur, seg) == cur - seg
BusySendpacket(sp) == sp - 1

\* BUSY branch, line 371: mbx_send is handed (ec_mbxbuft *)&MbxOut, the
\* address of the local pointer (which holds NULL), not the buffer the packet
\* was built in.  What goes on the wire is the memory at that address: the
\* zero bytes of the pointer followed by neighbouring stack contents.  The
\* outcomes modelled: a zeroed packet, or (by accident of the stack) a packet
\* equal to the one built.
BusyWire(built) == {ClearedPkt, built}

\* what the slave may answer to a WRITE or a DATA packet
WriteResponses(be, sp) ==
    {InPkt(be, ECT_MBXT_FOE + MBX_HDR_SET_CNT(1), ECT_FOE_ACK, FoeHeaderSize, n, <<>>) :
        n \in {sp, sp + 1} \cup ({sp - 1} \cap Nat)}
    \cup {InPkt(be, ECT_MBXT_FOE, ECT_FOE_BUSY, FoeHeaderSize, 0, <<>>)}
    \cup {InPkt(be, ECT_MBXT_FOE, ECT_FOE_ERROR, FoeHeaderSize, c, <<>>) :
            c \in {FileNotFoundCode, FileNotFoundCode + 1, Swap32(FileNotFoundCode)}}
    \cup {InPkt(be, ECT_MBXT_FOE, o, FoeHeaderSize, sp, <<>>) :
            o \in {ECT_FOE_DATA, ECT_FOE_READ}}
    \cup {InPkt(be, ECT_MBXT_COE, ECT_FOE_ACK, FoeHeaderSize, sp, <<>>)}

\* lines 226-258 and, when the request could not be sent, 409-411
FOEwriteCall(size, fnlen, drained, sw) ==
    /\ pc = "idle"
    /\ LET in0   == IF drained THEN 1 ELSE NULL
           out0  == IF drained THEN 2 ELSE 1
           md    == maxdataOf(mbx_l)
           cnt   == ec_nextmbxcnt(mbx_cnt)
           req   == RequestPkt(bigEndian, ECT_FOE_WRITE, fnsizeOf(fnlen, md), cnt)
           own1  == IF sw > 0 THEN {in0} \ {NULL} ELSE {in0, out0} \ {NULL}
           rel1  == IF sw > 0 THEN <<out0>> ELSE <<>>
           log1  == <<DrainEv(IF drained THEN OkWkc ELSE 0, in0),
                      SendEv(req, sw, out0, out0, TRUE)>>
       IN  /\ op' = "write"
           /\ psize' = size
           /\ file' = FileOf(size)
           /\ sendpacket' = 0
           /\ segmentdata' = 0
           /\ dofinalzero' = TRUE
           /\ p' = 0
           /\ maxdata' = md
           /\ mbx_cnt' = cnt
           /\ FOEp' = out0
           /\ MbxOut' = NULL
           /\ wkc' = sw
           /\ nextid' = out0 + 1
           /\ log' = log1
           /\ nrecv' = 0
           /\ buffersize' = 0
           /\ buf' = <<>>
           /\ dataread' = 0
           /\ prevpacket' = 0
           /\ IF sw > 0
              THEN /\ pc' = "write_loop"
                   /\ MbxIn' = in0
                   /\ owned' = own1
                   /\ released' = rel1
                   /\ ret' = 0
              ELSE /\ pc' = "done"
                   /\ MbxIn' = in0
                   /\ owned' = own1 \ SeqRange(ExitDrops(in0, NULL))
                   /\ released' = rel1 \o ExitDrops(in0, NULL)
                   /\ ret' = sw
    /\ UNCHANGED <<bigEndian, mbx_l, FOEhook>>

\* one iteration of the do/while loop (lines 260-407) with its receive timing
\* out (rw <= 0) or delivering pkt; sw is the work counter of the DATA
\* packet's send.  When worktodo is FALSE the action goes on to lines 409-411.
FOEwriteLoop(rw, pkt, sw) ==
    /\ pc = "write_loop"
    /\ nrecv < MaxRecv
    /\ LET own0   == owned \ ({MbxIn} \ {NULL})
           rel0   == released \o ExitDrops(MbxIn, NULL)
           in1    == IF rw > 0 THEN nextid ELSE NULL
           own1   == own0 \cup ({in1} \ {NULL})
           id1    == IF rw > 0 THEN nextid + 1 ELSE nextid
           foe    == rw > 0 /\ IsFoE(pkt)
           num    == etohl(bigEndian, pkt.PacketNumber)
           match  == foe /\ pkt.OpCode = ECT_FOE_ACK /\ AckMatches(num, sendpacket)
           isbusy == foe /\ pkt.OpCode = ECT_FOE_BUSY
           resend == isbusy /\ sendpacket # 0
           ps0    == IF resend THEN BusyPsize(psize, segmentdata) ELSE psize
           cur0   == IF resend THEN BusyCursor(p, segmentdata) ELSE p
           sp0    == IF resend THEN BusySendpacket(sendpacket) ELSE sendpacket
           tsize  == Tsize(ps0, maxdata)
           send   == (match \/ resend) /\ MustSend(tsize, dofinalzero)
           seg1   == IF send THEN tsize ELSE segmentdata
           ps1    == IF send THEN ps0 - seg1 ELSE ps0
           dfz1   == IF send THEN FinalZero(ps1, seg1, maxdata) ELSE dofinalzero
           sp1    == IF send THEN sp0 + 1 ELSE sp0
           cur1   == IF send THEN cur0 + seg1 ELSE cur0
           cnt    == ec_nextmbxcnt(mbx_cnt)
           built  == DataPkt(bigEndian, cnt, sp1, seg1, Slice(file, cur0, seg1))
           fresh  == send /\ match
           out1   == id1
           own2   == IF fresh /\ ~(sw > 0) THEN own1 \cup {out1} ELSE own1
           rel2   == IF fresh /\ sw > 0 THEN rel0 \o <<out1>> ELSE rel0
           todo   == WriteWorktodo(send, sw)
           wkc1   == IF ~(rw > 0) THEN rw
                     ELSE IF send THEN sw
                     ELSE IF match \/ isbusy THEN rw
                     ELSE WriteErrorWkc(pkt)
           hooks  == IF match /\ FOEhook # NULL THEN <<HookEv(num, psize)>> ELSE <<>>
           log0   == log \o <<RecvEv(IF rw > 0 THEN pkt ELSE ClearedPkt, rw, in1)>>
                     \o hooks
       IN  /\ nrecv' = nrecv + 1
           /\ segmentdata' = seg1
           /\ psize' = ps1
           /\ dofinalzero' = dfz1
           /\ sendpacket' = sp1
           /\ p' = cur1
           /\ mbx_cnt' = IF send THEN cnt ELSE mbx_cnt
           /\ FOEp' = IF fresh THEN out1 ELSE FOEp
           /\ nextid' = IF fresh THEN out1 + 1 ELSE id1
           /\ MbxOut' = NULL
           /\ wkc' = wkc1
           /\ \E wire \in (IF send /\ resend THEN BusyWire(built) ELSE {built}) :
                log' = log0 \o
                    (IF fresh THEN <<SendEv(built, sw, out1, out1, TRUE)>>
                     ELSE IF send
                     THEN <<SendEv(wire, sw, AddrOfMbxOut, FOEp, FOEp \in own1)>>
                     ELSE <<>>)
           /\ IF todo
              THEN /\ pc' = "write_loop"
                   /\ MbxIn' = in1
                   /\ owned' = own2
                   /\ released' = rel2
                   /\ ret' = ret
              ELSE /\ pc' = "done"
                   /\ MbxIn' = in1
                   /\ owned' = own2 \ SeqRange(ExitDrops(in1, NULL))
                   /\ released' = rel2 \o ExitDrops(in1, NULL)
                   /\ ret' = wkc1
    /\ UNCHANGED <<op, bigEndian, mbx_l, FOEhook, maxdata, readLocals, file>>

WriteNext ==
    \/ \E size \in 0..MaxSize, fnlen \in {FnLen}, drained \in BOOLEAN,
          sw \in SendWkc : FOEwriteCall(size, fnlen, drained, sw)
    \/ \E rw \in FailWkc : FOEwriteLoop(rw, ClearedPkt, OkWkc)
    \/ \E pkt \in WriteResponses(bigEndian, sendpacket),
          sw \in SendWkc : FOEwriteLoop(OkWkc, pkt, sw)

ReadNext ==
    \/ \E size \in 0..MaxSize, fnlen \in {FnLen}, drained \in BOOLEAN,
          sw \in SendWkc : FOEreadCall(size, fnlen, drained, sw)
    \/ \E rw \in FailWkc : FOEreadLoop(rw, ClearedPkt, OkWkc)
    \/ \E pkt \in ReadResponses(bigEndian, prevpacket, maxdata, nrecv + 1),
          sw \in SendWkc : FOEreadLoop(OkWkc, pkt, sw)

Next ==
    \/ \E hook \in {NULL, 1} : FOEdefinehook(hook)
    \/ ReadNext
    \/ WriteNext

Spec == Init /\ [][Next]_vars

\* =================================================================== claims
\* what the log shows
Sends == SelectSeq(log, LAMBDA e : e.ev = "send")
Recvs == SelectSeq(log, LAMBDA e : e.ev = "recv" /\ e.wkc > 0)
Hooks == SelectSeq(log, LAMBDA e : e.ev = "hook")
\* every send after the request: the DATA packets of a write, the ACKs of a read
LaterSends == IF Sends = <<>> THEN <<>> ELSE Tail(Sends)

\* a packet's fields as the wire (little endian) carries them
WireNum(e) == Wire32(bigEndian, e.pkt.PacketNumber)
WireSeg(e) == Wire16(bigEndian, e.pkt.length) - FoeHeaderSize
WireCnt(e) == MBX_HDR_GET_CNT(e.pkt.mbxtype)

SetMax(S) == CHOOSE x \in S : \A y \in S : y <= x

RECURSIVE SumSeg(_)
SumSeg(s) == IF s = <<>> THEN 0 ELSE WireSeg(Head(s)) + SumSeg(Tail(s))

\* the WireSeg(e) payload bytes of a packet
WirePayload(e) ==
    [j \in 1..WireSeg(e) |-> IF j <= Len(e.pkt.Data) THEN e.pkt.Data[j] ELSE 0]

RECURSIVE ConcatData(_)
ConcatData(s) ==
    IF s = <<>> THEN <<>> ELSE WirePayload(Head(s)) \o ConcatData(Tail(s))

IsRecv(e) == e.ev = "recv" /\ e.wkc > 0
LastEv == log[Len(log)]

Returned(o) == pc = "done" /\ op = o

\* ---- C1
DataIdx(n) == {i \in 1..Len(LaterSends) : WireNum(LaterSends[i]) = n}
HighestData == SetMax({WireNum(LaterSends[i]) : i \in 1..Len(LaterSends)} \cup {0})
LastPayload(n) ==
    IF DataIdx(n) = {} THEN <<>> ELSE LaterSends[SetMax(DataIdx(n))].pkt.Data

RECURSIVE PayloadsUpTo(_)
PayloadsUpTo(n) == IF n = 0 THEN <<>> ELSE PayloadsUpTo(n - 1) \o LastPayload(n)

\* C1: every write that returns > 0 with maxdata >= 1 has emitted DATA packets
\* whose payloads (a resent number counted once, by its last emission),
\* concatenated in packet number order, equal the caller's buffer, and the
\* highest numbered DATA packet is shorter than maxdata.
C1_WritePayloadEqualsFile ==
    (Returned("write") /\ ret > 0 /\ maxdata >= 1) =>
        /\ HighestData >= 1
        /\ PayloadsUpTo(HighestData) = file
        /\ Len(LastPayload(HighestData)) < maxdata

\* ---- C2
\* the responses of a read that were answered with an ACK, in order
RECURSIVE AcceptedFrom(_)
AcceptedFrom(i) ==
    IF i >= Len(log) THEN <<>>
    ELSE (IF IsRecv(log[i]) /\ log[i + 1].ev = "send" THEN <<log[i]>> ELSE <<>>)
         \o AcceptedFrom(i + 1)
Accepted == AcceptedFrom(1)

\* C2: after a read that returns > 0, *psize is the sum of the segment sizes
\* of the accepted DATA packets and the caller's buffer starts with the
\* concatenation of their segments, in the order they were accepted.
C2_ReadSizeAndContents ==
    (Returned("read") /\ ret > 0) =>
        /\ psize = SumSeg(Accepted)
        /\ psize <= Len(buf)
        /\ SubSeq(buf, 1, psize) = ConcatData(Accepted)

C2_Witness ==
    /\ Returned("read") /\ ret > 0
    /\ Len(Accepted) >= 2
    /\ WireSeg(Accepted[1]) >= 1 /\ WireSeg(Accepted[2]) >= 1

\* ---- C3
\* the response a loop step has just received
NewRecv == log'[Len(log) + 1]
ReadStep == pc = "read_loop" /\ Len(log') > Len(log)
NewData == IsRecv(NewRecv) /\ IsFoE(NewRecv.pkt) /\ NewRecv.pkt.OpCode = ECT_FOE_DATA
NewSeg == Uint16(WireSeg(NewRecv))

C3_Bounded == (op = "read") => (dataread <= buffersize /\ Len(buf) = buffersize)

C3_Step ==
    (ReadStep /\ NewData) =>
        /\ (buf' # buf \/ dataread' # dataread) => dataread + NewSeg <= buffersize
        /\ (dataread + NewSeg > buffersize) =>
              /\ pc' = "done"
              /\ ret' = -EC_ERR_TYPE_FOE_BUF2SMALL
              /\ buf' = buf
              /\ dataread' = dataread

\* C3: in a read dataread never exceeds buffersize and no byte lands at or
\* beyond offset buffersize; a segment is copied only if it fits what is left
\* of the buffer, and one that does not fit is rejected with -FOE_BUF2SMALL
\* with nothing of it copied.
C3_ReadNeverOverflows == []C3_Bounded /\ [][C3_Step]_vars

C3_Witness ==
    /\ Returned("read") /\ ret = -EC_ERR_TYPE_FOE_BUF2SMALL
    /\ dataread >= 1
    /\ IsRecv(LastEv) /\ LastEv.pkt.OpCode = ECT_FOE_DATA
    /\ WireNum(LastEv) = prevpacket
    /\ WireSeg(LastEv) >= 1
    /\ dataread + WireSeg(LastEv) > buffersize

\* ---- C4
TimesReleased(b) == Cardinality({i \in 1..Len(released) : released[i] = b})

\* C4: when a read or write returns, every mailbox buffer it obtained (from
\* get_mbx or mbx_receive) has been released exactly once, by drop_mbx or by
\* a successful mbx_send; none is still owned and none was released twice.
C4_BuffersReleasedOnce ==
    (pc = "done") =>
        /\ owned = {}
        /\ \A b \in 1..(nextid - 1) : TimesReleased(b) = 1
        /\ SeqRange(released) \subseteq 1..(nextid - 1)

\* ---- C5
WriteStep == pc = "write_loop" /\ Len(log') > Len(log)
NewBusy == IsRecv(NewRecv) /\ IsFoE(NewRecv.pkt) /\ NewRecv.pkt.OpCode = ECT_FOE_BUSY
LastSend == Sends[Len(Sends)]

C5_Step ==
    (WriteStep /\ NewBusy /\ sendpacket >= 1) =>
        /\ Len(log') = Len(log) + 2
        /\ log'[Len(log) + 2].ev = "send"
        /\ WireNum(log'[Len(log) + 2]) = WireNum(LastSend)
        /\ WireSeg(log'[Len(log) + 2]) = WireSeg(LastSend)
        /\ log'[Len(log) + 2].pkt.OpCode = ECT_FOE_DATA
        /\ log'[Len(log) + 2].pkt.Data = LastSend.pkt.Data
        /\ psize' = psize
        /\ p' = p
        /\ sendpacket' = sendpacket
        /\ segmentdata' = segmentdata
        /\ dofinalzero' = dofinalzero

\* C5: a BUSY received after a DATA packet was sent makes the write resend a
\* DATA packet with the number and payload of the one sent last, and leaves
\* remaining size, cursor, sendpacket, segmentdata and dofinalzero as they
\* were before the BUSY.
C5_BusyResendsLastPacket == [][C5_Step]_vars

\* ---- C6
DataBefore(i) == Cardinality({j \in 1..(i - 1) : log[j].ev = "send"}) - 1

\* the slave acknowledges the request with ACK(0) and every DATA(n) with
\* ACK(n); no receive and no send fails
HappyWrite ==
    /\ op = "write"
    /\ maxdata >= 1
    /\ \A i \in 1..Len(log) :
          /\ log[i].ev = "send" => log[i].wkc > 0
          /\ log[i].ev = "recv" =>
                /\ IsRecv(log[i])
                /\ IsFoE(log[i].pkt)
                /\ log[i].pkt.OpCode = ECT_FOE_ACK
                /\ WireNum(log[i]) = DataBefore(i)

FullPackets == Len(file) \div maxdata
LastLength == Len(file) % maxdata

\* C6: with maxdata >= 1 and a slave that acknowledges every packet, a write
\* of psize bytes emits floor(psize/maxdata) DATA packets of maxdata bytes and
\* then one of psize mod maxdata bytes (zero-length when psize is a multiple
\* of maxdata), numbered 1, 2, ..., and returns > 0 on the ACK of the last.
C6_WriteSegmentation ==
    HappyWrite =>
        /\ Len(LaterSends) <= FullPackets + 1
        /\ \A i \in 1..Len(LaterSends) :
              /\ LaterSends[i].pkt.OpCode = ECT_FOE_DATA
              /\ WireNum(LaterSends[i]) = i
              /\ WireSeg(LaterSends[i]) = (IF i <= FullPackets THEN maxdata ELSE LastLength)
              /\ WirePayload(LaterSends[i]) =
                    SubSeq(file, (i - 1) * maxdata + 1, (i - 1) * maxdata + WireSeg(LaterSends[i]))
        /\ (pc = "done") =>
              /\ Len(LaterSends) = FullPackets + 1
              /\ Len(Recvs) = FullPackets + 2
              /\ ret > 0

C6_Witness ==
    /\ HappyWrite /\ pc = "done"
    /\ Len(file) = 2 * maxdata
    /\ Len(LaterSends) = 3
    /\ WireSeg(LaterSends[3]) = 0

\* ---- C7
\* C7: every outbound packet carries a mailbox counter in 1..7 that is one
\* step, (old mod 7) + 1, after the counter of the packet sent before it, and
\* slave.mbx_cnt is the counter of the packet sent last.
C7_CounterOnEveryPacket ==
    /\ \A i \in 1..Len(Sends) :
          /\ WireCnt(Sends[i]) \in 1..7
          /\ (i > 1) => WireCnt(Sends[i]) = (WireCnt(Sends[i - 1]) % 7) + 1
    /\ (Sends # <<>>) => mbx_cnt = WireCnt(LastSend)

\* ---- C8
\* the error a write owes to a response, 0 when the response is no error
WriteOwes(e) ==
    IF ~IsFoE(e.pkt) THEN -EC_ERR_TYPE_PACKET_ERROR
    ELSE IF e.pkt.OpCode = ECT_FOE_ACK
         THEN (IF WireNum(e) # sendpacket THEN -EC_ERR_TYPE_FOE_PACKETNUMBER ELSE 0)
    ELSE IF e.pkt.OpCode = ECT_FOE_BUSY THEN 0
    ELSE IF e.pkt.OpCode = ECT_FOE_ERROR
         THEN (IF WireNum(e) = FileNotFoundCode THEN -EC_ERR_TYPE_FOE_FILE_NOTFOUND
               ELSE -EC_ERR_TYPE_FOE_ERROR)
    ELSE -EC_ERR_TYPE_PACKET_ERROR

\* C8: a write that ends on a received response, with nothing sent after it,
\* returns -FOE_PACKETNUMBER for an ACK with the wrong number,
\* -FOE_FILE_NOTFOUND for an ERROR with code 0x8001, -FOE_ERROR for any other
\* ERROR, -PACKET_ERROR for any other opcode or a non FoE mailbox, and no
\* error otherwise.
C8_WriteErrorMapping ==
    (Returned("write") /\ Len(log) > 2 /\ IsRecv(LastEv)) =>
        IF WriteOwes(LastEv) # 0 THEN ret = WriteOwes(LastEv) ELSE ret > 0

\* ---- C9
ReadOwes(e) ==
    IF ~IsFoE(e.pkt) THEN -EC_ERR_TYPE_PACKET_ERROR
    ELSE IF e.pkt.OpCode = ECT_FOE_DATA
         THEN (IF WireNum(e) # prevpacket + 1 \/ dataread + Uint16(WireSeg(e)) > buffersize
               THEN -EC_ERR_TYPE_FOE_BUF2SMALL ELSE 0)
    ELSE IF e.pkt.OpCode = ECT_FOE_ERROR THEN -EC_ERR_TYPE_FOE_ERROR
    ELSE -EC_ERR_TYPE_PACKET_ERROR

C9_Step ==
    (ReadStep /\ IsRecv(NewRecv)) =>
        IF ReadOwes(NewRecv) # 0
        THEN /\ pc' = "done"
             /\ ret' = ReadOwes(NewRecv)
             /\ Len(log') = Len(log) + 1
             /\ buf' = buf
             /\ dataread' = dataread
             /\ mbx_cnt' = mbx_cnt
        ELSE /\ Len(log') >= Len(log) + 2
             /\ log'[Len(log) + 2].ev = "send"
             /\ log'[Len(log) + 2].pkt.OpCode = ECT_FOE_ACK
             /\ (pc' = "done") => ret' = log'[Len(log) + 2].wkc

\* C9: a response received by a read ends the transfer with an error, with no
\* ACK sent, no hook call and no byte copied, exactly when it is a DATA packet
\* with a number other than prevpacket + 1 or a segment that does not fit
\* (-FOE_BUF2SMALL), an ERROR (-FOE_ERROR), or any other opcode or a non FoE
\* mailbox (-PACKET_ERROR); any other response is answered with an ACK.
C9_ReadErrorMapping == [][C9_Step]_vars

C9_Witness ==
    /\ Returned("read") /\ ret = -EC_ERR_TYPE_FOE_ERROR
    /\ dataread >= 1
    /\ FOEhook # NULL
    /\ IsRecv(LastEv) /\ LastEv.pkt.OpCode = ECT_FOE_ERROR

\* ---- C10
\* C10: whenever a read returns, *psize is dataread, the number of bytes the
\* call copied into the caller's buffer.
C10_PsizeIsDataread == Returned("read") => psize = dataread

\* ---- C11
\* C11: in a read that returns > 0 no accepted DATA segment is longer than
\* maxdata.
C11_AcceptedSegmentsWithinMaxdata ==
    (Returned("read") /\ ret > 0) =>
        \A i \in 1..Len(Accepted) : WireSeg(Accepted[i]) <= maxdata

\* ---- C12
\* the send/receive events of the loop, without drain and hook events
Exchange == SelectSeq(log, LAMBDA e : e.ev \in {"send", "recv"})
IsOp(e, o) == IsRecv(e) /\ IsFoE(e.pkt) /\ e.pkt.OpCode = o

\* a read's ACKs: the i-th carries i and answers a DATA packet carrying i
ReadNumbersContiguous ==
    (op = "read") =>
        /\ \A i \in 1..Len(LaterSends) :
              /\ LaterSends[i].pkt.OpCode = ECT_FOE_ACK
              /\ WireNum(LaterSends[i]) = i
        /\ \A k \in 2..Len(Exchange) :
              (Exchange[k].ev = "send") =>
                  /\ IsOp(Exchange[k - 1], ECT_FOE_DATA)
                  /\ WireNum(Exchange[k - 1]) = WireNum(Exchange[k])

\* a write's DATA packets: the first carries 1; each later one carries the
\* previous number plus 1 after a matching ACK, or the previous number again
\* after BUSY
WriteNumbersContiguous ==
    (op = "write") =>
        /\ (Len(LaterSends) >= 1) => WireNum(LaterSends[1]) = 1
        /\ \A k \in 4..Len(Exchange) :
              (Exchange[k].ev = "send") =>
                  \/ /\ IsOp(Exchange[k - 1], ECT_FOE_ACK)
                     /\ WireNum(Exchange[k - 1]) = WireNum(Exchange[k - 2])
                     /\ WireNum(Exchange[k]) = WireNum(Exchange[k - 2]) + 1
                  \/ /\ IsOp(Exchange[k - 1], ECT_FOE_BUSY)
                     /\ WireNum(Exchange[k]) = WireNum(Exchange[k - 2])

\* C12: packet numbers are contiguous within a transfer: a read accepts DATA
\* 1, 2, ..., k in order and sends exactly one ACK(n) per accepted DATA(n); a
\* write numbers its first DATA packet 1 and every later one with the previous
\* number plus 1 (after a matching ACK) or the previous number (after BUSY).
C12_PacketNumbersContiguous == ReadNumbersContiguous /\ WriteNumbersContiguous

\* ---- C13
\* C13: when mbx_send or an in-loop mbx_receive returns wkc <= 0 the call has
\* ended at once: nothing is sent or received after it, and the call returns
\* that wkc.
C13_TransportFailureEndsCall ==
    \A i \in 1..Len(log) :
        (log[i].ev \in {"send", "recv"} /\ log[i].wkc <= 0) =>
            /\ pc = "done"
            /\ ret = log[i].wkc
            /\ \A j \in (i + 1)..Len(log) : log[j].ev = "hook"

C13_Witness ==
    /\ Returned("read") /\ ret = -1
    /\ Len(Sends) >= 3
    /\ LastSend.wkc = -1
    /\ LastEv.ev = "hook"
    /\ WireSeg(Accepted[Len(Accepted)]) = maxdata

\* ---- C14
LastRecv == Recvs[Len(Recvs)]

\* C14: a write returns > 0 only when the response received last is an ACK
\* carrying the number of the DATA packet emitted last, nothing remains to be
\* sent and no final zero-length packet is pending; never after a BUSY.
C14_WriteSuccessMeansAcked ==
    (Returned("write") /\ ret > 0) =>
        /\ Recvs # <<>>
        /\ IsOp(LastRecv, ECT_FOE_ACK)
        /\ Len(LaterSends) >= 1
        /\ WireNum(LastRecv) = WireNum(LastSend)
        /\ psize = 0
        /\ ~dofinalzero

\* ---- C15
C15_Step ==
    (WriteStep /\ NewBusy /\ sendpacket = 0) =>
        /\ Len(log') = Len(log) + 1
        /\ psize' = psize
        /\ p' = p
        /\ sendpacket' = sendpacket
        /\ segmentdata' = segmentdata
        /\ dofinalzero' = dofinalzero
        /\ pc' = "write_loop"

\* C15: a BUSY received by a write before any DATA packet was sent is
\* ignored: nothing is sent, remaining size, cursor, sendpacket, segmentdata
\* and dofinalzero keep their values, and the transfer goes on to wait for the
\* next response.
C15_EarlyBusyIgnored == [][C15_Step]_vars

\* ---- C16
\* C16: every packet handed to mbx_send was built in a buffer from get_mbx
\* that the call still owned, and that buffer is the one handed over.
C16_SendsOwnedPoolBuffer ==
    \A i \in 1..Len(Sends) :
        /\ Sends[i].buf >= 1
        /\ Sends[i].buf = Sends[i].built
        /\ Sends[i].own

\* ---- C17
\* C17: after the drain, sends and successful receives alternate strictly,
\* starting with the send of the request: one packet at most per response,
\* never two sends without a successful receive between them, and no receive
\* after a response that was not answered.
C17_HalfDuplex ==
    /\ \A k \in 1..Len(Exchange) :
          /\ Exchange[k].ev = (IF k % 2 = 1 THEN "send" ELSE "recv")
          /\ (k < Len(Exchange)) => Exchange[k].wkc > 0
    /\ (pc \in {"read_loop", "write_loop"}) =>
          /\ Exchange # <<>>
          /\ Exchange[Len(Exchange)].ev = "send"
          /\ Exchange[Len(Exchange)].wkc > 0
    /\ (log # <<>>) => log[1].ev = "drain"
    /\ \A i \in 2..Len(log) : log[i].ev # "drain"

C17_Witness ==
    /\ Returned("write")
    /\ Len(Exchange) = 2 * MaxRecv
    /\ Exchange[Len(Exchange)].ev = "recv"
    /\ \E k \in 1..Len(Exchange) : IsOp(Exchange[k], ECT_FOE_BUSY)

\* ---- C18
RECURSIVE SegsUpTo(_)
SegsUpTo(i) == IF i = 0 THEN 0 ELSE SegsUpTo(i - 1) + WireSeg(Accepted[i])

\* C18: a read with a hook installed calls it once per accepted DATA packet
\* n, right after the ACK for n was handed to mbx_send, with n and the bytes
\* read so far including segment n, and at no other time; the calls carry 1,
\* 2, ..., k and non-decreasing byte counts, the last equal to *psize.
C18_HookPerAcceptedPacket ==
    (op = "read" /\ FOEhook # NULL) =>
        /\ Len(Hooks) = Len(Accepted)
        /\ Len(Hooks) = Len(LaterSends)
        /\ \A i \in 1..Len(log) :
              /\ (log[i].ev = "hook") =>
                    /\ i >= 3
                    /\ log[i - 1].ev = "send"
                    /\ log[i - 1].pkt.OpCode = ECT_FOE_ACK
                    /\ IsOp(log[i - 2], ECT_FOE_DATA)
                    /\ log[i].num = WireNum(log[i - 2])
                    /\ log[i].num = WireNum(log[i - 1])
              /\ (log[i].ev = "send" /\ i > 2) =>
                    (i < Len(log) /\ log[i + 1].ev = "hook")
        /\ \A i \in 1..Len(Hooks) :
              /\ Hooks[i].num = i
              /\ Hooks[i].size = SegsUpTo(i)
              /\ (i > 1) => Hooks[i - 1].size <= Hooks[i].size
        /\ (Hooks # <<>>) => Hooks[Len(Hooks)].size = psize

C18_Witness ==
    /\ Returned("read") /\ FOEhook # NULL
    /\ Len(Hooks) >= 2
    /\ Hooks[1].size >= 1
    /\ Hooks[2].size > Hooks[1].size
    /\ ret < 0

\* ---- C19
\* C19: with maxdata >= 1 a read of a buffer of B bytes accepts at most
\* floor(B/maxdata) + 1 DATA packets and receives no more responses than
\* that: it goes on only after accepting a segment of exactly maxdata bytes
\* whose ACK was sent with wkc > 0, and has returned after anything else.
C19_ReadTerminates ==
    (op = "read" /\ maxdata >= 1) =>
        /\ Len(Accepted) <= (buffersize \div maxdata) + 1
        /\ nrecv <= (buffersize \div maxdata) + 1
        /\ nrecv < MaxRecv
        /\ (pc = "read_loop" /\ nrecv > 0) =>
              /\ LastEv.ev \in {"send", "hook"}
              /\ LastSend.wkc > 0
              /\ Len(Accepted) = nrecv
              /\ WireSeg(Accepted[nrecv]) = maxdata
        /\ (nrecv > 0 /\ (Len(Accepted) < nrecv \/ LastSend.wkc <= 0
                          \/ WireSeg(Accepted[Len(Accepted)]) # maxdata)) =>
              pc = "done"

C19_Witness ==
    /\ Returned("read") /\ maxdata = 1 /\ buffersize = MaxSize
    /\ Len(Accepted) = MaxSize + 1
    /\ ret > 0

\* ---- C20
\* the transfer state a write's loop iteration starts from
WriteRound == <<psize, p, sendpacket, segmentdata, dofinalzero>>

\* A bound on the DATA packets that depends on psize and maxdata alone needs
\* every iteration that sends a packet and goes on to leave the transfer
\* state changed: an iteration that sends and comes back to the state it
\* started from can be repeated by the slave as often as it likes.
\* Taken with maxdata >= 1, where a transfer needs floor(psize/maxdata) + 1
\* packets.
C20_Step ==
    (WriteStep /\ maxdata >= 1 /\ pc' = "write_loop") => WriteRound' # WriteRound

\* C20 (as claimed): a write terminates whatever the slave answers, the
\* number of DATA packets it sends being bounded by a function of psize and
\* maxdata, also when every DATA packet is answered with BUSY.
C20_WriteAlwaysTerminates == [][C20_Step]_vars

BusyCount == Cardinality({i \in 1..Len(Recvs) : IsOp(Recvs[i], ECT_FOE_BUSY)})

\* C20 (amended): with maxdata >= 1 a write sends at most
\* floor(psize/maxdata) + 1 DATA packets plus one for every BUSY it received,
\* and receives at most one response more than it sent DATA packets; it
\* terminates when the slave sends finitely many BUSY responses.
C20_WriteBoundedByBusy ==
    (op = "write" /\ maxdata >= 1) =>
        /\ Len(LaterSends) <= FullPackets + 1 + BusyCount
        /\ nrecv <= Len(LaterSends) + 1

C20_Witness ==
    /\ Returned("write") /\ maxdata >= 1 /\ ret > 0
    /\ BusyCount >= 2
    /\ Len(LaterSends) = FullPackets + 1 + BusyCount

====
